---- MODULE Spec2Model ----
(***************************************************************************)
(* Model of internal/docs/component_markdown.go: ComponentSpec.AsMarkdown, *)
(* genExampleConfigs and createOrderedConfig, together with the YAML       *)
(* collaborators they call (Node.Encode, SanitiseYAML, marshalYAML,        *)
(* FlattenChildrenForDocs) and the component template.                     *)
(***************************************************************************)
EXTENDS Integers, Sequences, FiniteSets, TLC

\* ------------------------------------------------------------------------
\* Bounds of the explored inputs
\* ------------------------------------------------------------------------
\* longest top-level mapping of a raw example
MaxKeys == 2
\* longest summary text, in characters
MaxStrLen == 3

\* ------------------------------------------------------------------------
\* Values
\* ------------------------------------------------------------------------
\* docs.FieldSpec: one node of the field specification tree
Field(name, type, kind, adv, dep, children) ==
  [Name |-> name, Type |-> type, Kind |-> kind, IsAdvanced |-> adv,
   IsDeprecated |-> dep, Children |-> children]

KindScalar == "scalar"
KindMap == "map"
KindArray == "array"
Kind2DArray == "2darray"
StatusStable == "stable"

\* A Go value handed in as fullConfigExample (any): a string, an ordered
\* mapping, a list, or a value yaml cannot encode (a channel).
RawStr(s) == [t |-> "str", s |-> s, kv |-> <<>>]
RawMap(entries) == [t |-> "map", s |-> "", kv |-> entries]
RawList(items) == [t |-> "list", s |-> "", kv |-> [i \in 1..Len(items) |-> [key |-> "", val |-> items[i]]]]
RawChan == [t |-> "chan", s |-> "", kv |-> <<>>]
Entry(k, v) == [key |-> k, val |-> v]

\* yaml.Node: Kind, Value and Content (a mapping's Content alternates key
\* node, value node).
Node(kind, value, content) == [Kind |-> kind, Value |-> value, Content |-> content]
ScalarNode(s) == Node("Scalar", s, <<>>)

\* the pairs (key, value node) of a mapping node, in Content order
PairsOf(node) ==
  [i \in 1..(Len(node.Content) \div 2) |->
     [key |-> node.Content[2 * i - 1].Value, val |-> node.Content[2 * i]]]

\* the Content of a mapping node holding the given pairs
ContentOf(pairs) ==
  [i \in 1..(2 * Len(pairs)) |->
     IF i % 2 = 1 THEN ScalarNode(pairs[(i + 1) \div 2].key)
     ELSE pairs[i \div 2].val]

MappingNode(pairs) == Node("Mapping", "", ContentOf(pairs))
SequenceNode(items) == Node("Sequence", "", items)

HasKey(pairs, k) == \E i \in DOMAIN pairs : pairs[i].key = k
ValueAt(pairs, k) == pairs[CHOOSE i \in DOMAIN pairs : pairs[i].key = k /\ \A j \in 1..(i - 1) : pairs[j].key # k].val
KeysOf(pairs) == [i \in DOMAIN pairs |-> pairs[i].key]

\* ------------------------------------------------------------------------
\* yaml.Node.Encode
\* ------------------------------------------------------------------------
RECURSIVE Encodable(_)
Encodable(v) ==
  /\ v.t # "chan"
  /\ \A i \in DOMAIN v.kv : Encodable(v.kv[i].val)

RECURSIVE EncodeNode(_)
EncodeNode(v) ==
  CASE v.t = "str" -> ScalarNode(v.s)
    [] v.t = "map" ->
         MappingNode([i \in DOMAIN v.kv |-> [key |-> v.kv[i].key, val |-> EncodeNode(v.kv[i].val)]])
    [] v.t = "list" -> SequenceNode([i \in DOMAIN v.kv |-> EncodeNode(v.kv[i].val)])
    [] OTHER -> ScalarNode("")

\* newNode.Encode(rawExample): a fresh node tree, or an error
Encode(rawExample) ==
  IF Encodable(rawExample)
  THEN [node |-> EncodeNode(rawExample), err |-> "nil"]
  ELSE [node |-> ScalarNode(""), err |-> "EncodingError"]

\* ------------------------------------------------------------------------
\* Field filters (the two closures of genExampleConfigs)
\* ------------------------------------------------------------------------
AdvancedFilter(f) == ~f.IsDeprecated

CommonFilterNoDeprecated(f) == ~f.IsAdvanced

CommonFilter(f) == ~f.IsAdvanced /\ ~f.IsDeprecated

\* FieldFilter call: filter is "advanced" or "common"
ApplyFilter(filter, f) ==
  IF filter = "advanced" THEN AdvancedFilter(f) ELSE CommonFilter(f)

\* NewSanitiseConfig plus the three assignments of createOrderedConfig
SanitiseConfig(filter) == [RemoveTypeField |-> TRUE, Filter |-> filter, ForExample |-> TRUE]

\* ------------------------------------------------------------------------
\* State
\* ------------------------------------------------------------------------
VARIABLES
  c,                 \* the ComponentSpec receiver of AsMarkdown
  fullConfigExample, \* the caller's raw example value
  fieldDocsFails,    \* whether the "field_docs" template errors on this component's fields
  pc,                \* position of the running AsMarkdown call
  nest,              \* the nest argument of the running call
  ctx,               \* componentContext of the running call
  advConfig,         \* genExampleConfigs local
  commonConfig,      \* genExampleConfigs local
  ret,               \* what the running call returned
  work,              \* the rendering steps the running call has performed
  log                \* per nest flag, the outcome of the first finished call

vars == <<c, fullConfigExample, fieldDocsFails, pc, nest, ctx, advConfig, commonConfig, ret, work, log>>

\* ------------------------------------------------------------------------
\* SanitiseYAML: the walk of the node tree alongside the field specification
\* ------------------------------------------------------------------------
\* the field specification registered for component type t
FieldSpecsFor(t) == c.Config.Children

\* how many sequence levels lie between a field's value and its children
KindDepth(kind) ==
  CASE kind = KindArray -> 1
    [] kind = Kind2DArray -> 2
    [] OTHER -> 0

RECURSIVE HasFilteredIn(_, _, _, _)
\* some descendant of a field with children specs, present under val, passes the filter
HasFilteredIn(children, val, conf, depth) ==
  IF depth > 0
  THEN /\ val.Kind = "Sequence"
       /\ \E i \in DOMAIN val.Content : HasFilteredIn(children, val.Content[i], conf, depth - 1)
  ELSE /\ val.Kind = "Mapping"
       /\ \E i \in DOMAIN children :
            /\ HasKey(PairsOf(val), children[i].Name)
            /\ \/ ApplyFilter(conf.Filter, children[i])
               \/ HasFilteredIn(children[i].Children, ValueAt(PairsOf(val), children[i].Name),
                                conf, KindDepth(children[i].Kind))

\* a field is omitted iff the filter rejects it and it has no filtered-in descendants
KeepField(f, val, conf) ==
  \/ ApplyFilter(conf.Filter, f)
  \/ /\ f.Kind # KindScalar
     /\ HasFilteredIn(f.Children, val, conf, KindDepth(f.Kind))

RECURSIVE SanitiseFields(_, _, _)
RECURSIVE SanitiseNested(_, _, _, _)

\* the value of a composite field: the same rule at every level
SanitiseNested(children, val, conf, depth) ==
  IF depth > 0
  THEN IF val.Kind = "Sequence"
       THEN SequenceNode([i \in DOMAIN val.Content |->
                            SanitiseNested(children, val.Content[i], conf, depth - 1)])
       ELSE val
  ELSE SanitiseFields(children, val, conf)

\* one mapping node: drop the type key, keep the fields the filter lets
\* through in declared order, then the unspecified keys in their own order
SanitiseFields(specs, node, conf) ==
  IF node.Kind # "Mapping" THEN node
  ELSE
    LET all == PairsOf(node)
        pairs == IF conf.RemoveTypeField
                 THEN SelectSeq(all, LAMBDA p : p.key # "type")
                 ELSE all
        kept == SelectSeq(specs, LAMBDA f :
                  HasKey(pairs, f.Name) /\ KeepField(f, ValueAt(pairs, f.Name), conf))
        specified ==
          [i \in DOMAIN kept |->
             [key |-> kept[i].Name,
              val |-> IF kept[i].Kind = KindScalar
                      THEN ValueAt(pairs, kept[i].Name)
                      ELSE SanitiseNested(kept[i].Children, ValueAt(pairs, kept[i].Name),
                                          conf, KindDepth(kept[i].Kind))]]
        names == {specs[i].Name : i \in DOMAIN specs}
        rest == SelectSeq(pairs, LAMBDA p : p.key \notin names)
    IN MappingNode(specified \o rest)

SanitiseYAML(t, node, conf) == SanitiseFields(FieldSpecsFor(t), node, conf)

\* ------------------------------------------------------------------------
\* createOrderedConfig
\* ------------------------------------------------------------------------
createOrderedConfigUnsanitised(t, rawExample, filter) ==
  Encode(rawExample)

createOrderedConfig(t, rawExample, filter) ==
  LET enc == Encode(rawExample)
  IN IF enc.err # "nil" THEN enc
     ELSE [node |-> SanitiseYAML(t, enc.node, SanitiseConfig(filter)), err |-> "nil"]

\* ------------------------------------------------------------------------
\* marshalYAML: block-style text, one record per line
\* ------------------------------------------------------------------------
Line(ind, dash, key, val) == [ind |-> ind, dash |-> dash, key |-> key, val |-> val]

RECURSIVE ConcatAll(_)
ConcatAll(ss) == IF ss = <<>> THEN <<>> ELSE Head(ss) \o ConcatAll(Tail(ss))

ScalarText(v) == IF v = "" THEN "''" ELSE v

RECURSIVE WellFormed(_)
WellFormed(node) ==
  /\ node.Kind \in {"Scalar", "Mapping", "Sequence"}
  /\ \A i \in DOMAIN node.Content : WellFormed(node.Content[i])

RECURSIVE MarshalNode(_, _)
MarshalNode(node, ind) ==
  CASE node.Kind = "Scalar" -> <<Line(ind, 0, "", ScalarText(node.Value))>>
    [] node.Kind = "Mapping" /\ node.Content = <<>> -> <<Line(ind, 0, "", "{}")>>
    [] node.Kind = "Sequence" /\ node.Content = <<>> -> <<Line(ind, 0, "", "[]")>>
    [] node.Kind = "Mapping" /\ node.Content # <<>> ->
         LET pairs == PairsOf(node)
         IN ConcatAll([i \in DOMAIN pairs |->
              LET sub == MarshalNode(pairs[i].val, ind + 1)
              IN IF pairs[i].val.Kind = "Scalar" \/ pairs[i].val.Content = <<>>
                 THEN <<Line(ind, 0, pairs[i].key, sub[1].val)>>
                 ELSE <<Line(ind, 0, pairs[i].key, "")>> \o sub])
    [] OTHER ->
         ConcatAll([i \in DOMAIN node.Content |->
              LET sub == MarshalNode(node.Content[i], ind + 1)
              IN <<[sub[1] EXCEPT !.ind = ind, !.dash = @ + 1]>> \o Tail(sub)])

marshalYAML(node) ==
  IF WellFormed(node)
  THEN [bytes |-> MarshalNode(node, 0), err |-> "nil"]
  ELSE [bytes |-> <<>>, err |-> "SerializationError"]

\* lines 174-177: map[string]any{string(t): config}
NestWrapNone(t, nestFlag, config) == config

NestWrap(t, nestFlag, config) ==
  IF nestFlag THEN MappingNode(<<[key |-> t, val |-> config]>>) ELSE config

\* ------------------------------------------------------------------------
\* AsMarkdown helpers
\* ------------------------------------------------------------------------
\* strings.Contains(c.Summary, "\n\n")
HasBlankLinePrefix(s) == Len(s) >= 2 /\ s[1] = "\n" /\ s[2] = "\n"

HasBlankLine(s) == \E i \in 1..(Len(s) - 1) : s[i] = "\n" /\ s[i + 1] = "\n"

\* json.Marshal of a list of strings
RECURSIVE JsonItems(_)
JsonItems(ss) ==
  IF ss = <<>> THEN <<>>
  ELSE <<"\"" \o Head(ss) \o "\"">> \o (IF Tail(ss) = <<>> THEN <<>> ELSE <<",">>) \o JsonItems(Tail(ss))

JsonMarshal(ss) == <<"[">> \o JsonItems(ss) \o <<"]">>

\* s[1:] when s starts with a newline
StripLeadingNewline(s) == IF Len(s) > 0 /\ s[1] = "\n" THEN Tail(s) ELSE s

\* FieldSpec.FlattenChildrenForDocs: the children in declaration order, each
\* followed by its own flattened children, with dotted full names
FieldSpecCtx(spec, fullName) == [Spec |-> spec, FullName |-> fullName]

PathSuffix(kind) ==
  CASE kind = KindArray -> "[]."
    [] kind = Kind2DArray -> "[][]."
    [] OTHER -> "."

RECURSIVE FlattenFields(_, _)
FlattenFields(specs, prefix) ==
  ConcatAll([i \in DOMAIN specs |->
    <<FieldSpecCtx(specs[i], prefix \o specs[i].Name)>>
      \o FlattenFields(specs[i].Children, prefix \o specs[i].Name \o PathSuffix(specs[i].Kind))])

FlattenChildrenForDocs(spec) == FlattenFields(spec.Children, "")

\* lines 231-237: the type label a flattened field is shown with
TypeLabelArrayOnly(kind, type) ==
  CASE kind = KindMap -> "object"
    [] kind = KindArray -> "array"
    [] kind = Kind2DArray -> "array"
    [] OTHER -> type

TypeLabel(kind, type) ==
  CASE kind = KindMap -> "object"
    [] kind = KindArray -> "array"
    [] kind = Kind2DArray -> "two-dimensional array"
    [] OTHER -> type

\* lines 230-240: one iteration of the loop over flattenedFields
DocField(v) ==
  [v EXCEPT !.Spec = [@ EXCEPT !.Type = TypeLabel(v.Spec.Kind, v.Spec.Type),
                               !.Kind = KindScalar]]

ZeroCtx ==
  [Name |-> "", Type |-> "", FrontMatterSummary |-> <<>>, Summary |-> <<>>,
   Description |-> <<>>, Categories |-> <<>>, Examples |-> <<>>, Fields |-> <<>>,
   Footnotes |-> <<>>, CommonConfig |-> <<>>, AdvancedConfig |-> <<>>,
   Status |-> "", Version |-> ""]

\* ------------------------------------------------------------------------
\* componentTemplate, executed into a buffer of sections
\* ------------------------------------------------------------------------
Sec(name, text, lines, fields) == [name |-> name, text |-> text, lines |-> lines, fields |-> fields]

Opt(cond, sec) == IF cond THEN <<sec>> ELSE <<>>

\* lines 30-102: everything up to the first "## Fields" block
TemplateHead(x) ==
  <<Sec("front",
        <<x.Name, x.Type, x.Status>> \o x.FrontMatterSummary \o x.Categories,
        <<>>, <<>>)>>
  \o Opt(x.Status \in {"beta", "experimental", "deprecated"}, Sec("banner", <<x.Status>>, <<>>, <<>>))
  \o Opt(Len(x.Summary) > 0, Sec("summary", x.Summary, <<>>, <<>>))
  \o Opt(x.Version # "", Sec("version", <<x.Version>>, <<>>, <<>>))
  \o (IF x.CommonConfig = x.AdvancedConfig
      THEN <<Sec("config", <<>>, x.CommonConfig, <<>>)>>
      ELSE <<Sec("common", <<>>, x.CommonConfig, <<>>), Sec("advanced", <<>>, x.AdvancedConfig, <<>>)>>)
  \o Opt(Len(x.Description) > 0, Sec("description", x.Description, <<>>, <<>>))

\* lines 109-131
TemplateExamples(x) ==
  Opt(Len(x.Examples) > 0,
      Sec("examples",
          ConcatAll([i \in DOMAIN x.Examples |-> <<x.Examples[i].Title>> \o x.Examples[i].Summary \o x.Examples[i].Config]),
          <<>>, <<>>))

\* lines 139-141
TemplateFoot(x) == Opt(Len(x.Footnotes) > 0, Sec("footnotes", x.Footnotes, <<>>, <<>>))

FieldDocs(x) == <<Sec("fields", <<>>, <<>>, x.Fields)>>

\* template.Execute(&buf, ctx): the buffer and the error.  An error inside
\* the "field_docs" template stops execution with the earlier sections
\* already written.
Execute(x, fails) ==
  LET n == Len(x.Fields)
  IN CASE n = 0 ->
            [buf |-> TemplateHead(x) \o TemplateExamples(x) \o TemplateFoot(x), err |-> "nil"]
       [] n > 0 /\ n <= 4 /\ fails ->
            [buf |-> TemplateHead(x), err |-> "ExecError"]
       [] n > 4 /\ fails ->
            [buf |-> TemplateHead(x) \o TemplateExamples(x), err |-> "ExecError"]
       [] n > 0 /\ n <= 4 /\ ~fails ->
            [buf |-> TemplateHead(x) \o FieldDocs(x) \o TemplateExamples(x) \o TemplateFoot(x), err |-> "nil"]
       [] OTHER ->
            [buf |-> TemplateHead(x) \o TemplateExamples(x) \o FieldDocs(x) \o TemplateFoot(x), err |-> "nil"]

\* the whole document for a context, when nothing fails
FullDocument(x) == Execute(x, FALSE).buf

\* ------------------------------------------------------------------------
\* Inputs explored
\* ------------------------------------------------------------------------
Common == [adv |-> FALSE, dep |-> FALSE]
Advanced == [adv |-> TRUE, dep |-> FALSE]
Deprecated == [adv |-> FALSE, dep |-> TRUE]
Flags == {Common, Advanced, Deprecated}
CompositeKinds == {KindMap, KindArray, Kind2DArray}

\* a config spec with fields a, b declared in that order; b has children x, y
ConfigTree(fa, fb, kb, fx, fy) ==
  Field("", "object", KindMap, FALSE, FALSE,
    <<Field("a", "string", KindScalar, fa.adv, fa.dep, <<>>),
      Field("b", "string", kb, fb.adv, fb.dep,
        <<Field("x", "int", KindScalar, fx.adv, fx.dep, <<>>),
          Field("y", "string", KindScalar, fy.adv, fy.dep, <<>>)>>)>>)

ComponentSpec(status, summary, description, footnotes, categories, examples, version, config) ==
  [Name |-> "foo", Type |-> "input", Status |-> status, Summary |-> summary,
   Description |-> description, Footnotes |-> footnotes, Categories |-> categories,
   Examples |-> examples, Version |-> version, Config |-> config]

\* the value of b in a raw example, out of declared order, with a type key
\* and a key the specification does not declare
BMap == RawMap(<<Entry("y", RawStr("2")), Entry("type", RawStr("t")),
                 Entry("x", RawStr("1")), Entry("q", RawStr("8"))>>)

ValueFor(key, kb) ==
  CASE key = "a" -> RawStr("1")
    [] key = "type" -> RawStr("input")
    [] key = "z" -> RawStr("9")
    [] key = "b" /\ kb = KindMap -> BMap
    [] key = "b" /\ kb = KindArray -> RawList(<<BMap, RawMap(<<Entry("x", RawStr("3"))>>)>>)
    [] OTHER -> RawList(<<RawList(<<BMap>>)>>)

TopKeys == {"a", "b", "type", "z"}

KeySeqs ==
  {ks \in UNION {[1..n -> TopKeys] : n \in 0..MaxKeys} :
     \A i, j \in DOMAIN ks : i # j => ks[i] # ks[j]}

ExampleFor(ks, kb) == RawMap([i \in DOMAIN ks |-> Entry(ks[i], ValueFor(ks[i], kb))])

Texts == UNION {[1..n -> {"s", "\n"}] : n \in 0..MaxStrLen}

Descriptions == {<<>>, <<"\n", "d">>, <<"\n", "\n", "d">>}

AnExample == [Title |-> "Basic", Summary |-> <<"e">>, Config |-> <<"cfg">>]

Profiles ==
  {[Status |-> "", Categories |-> <<>>, Version |-> "", Examples |-> <<>>, Footnotes |-> <<>>],
   [Status |-> "beta", Categories |-> <<"Services", "Utility">>, Version |-> "1.0.0",
    Examples |-> <<AnExample>>, Footnotes |-> <<"\n", "f">>],
   [Status |-> "stable", Categories |-> <<"Services">>, Version |-> "", Examples |-> <<>>,
    Footnotes |-> <<"f">>]}

PlainSpec(config) == ComponentSpec("", <<"s">>, <<>>, <<>>, <<>>, <<>>, "", config)

\* varied field trees and examples, plain metadata
TreeInputs ==
  {[c |-> PlainSpec(ConfigTree(fa, fb, kb, fx, fy)),
    example |-> ExampleFor(ks, kb), fails |-> FALSE] :
     fa \in {Common, Deprecated}, fb \in Flags, kb \in {KindMap, KindArray},
     fx \in Flags, fy \in Flags, ks \in KeySeqs}

\* fields a (common), b (advanced), c (deprecated) with example {c: 3, a: 1, b: 2}
ScenarioTree ==
  Field("", "object", KindMap, FALSE, FALSE,
    <<Field("a", "string", KindScalar, FALSE, FALSE, <<>>),
      Field("b", "string", KindScalar, TRUE, FALSE, <<>>),
      Field("c", "string", KindScalar, FALSE, TRUE, <<>>)>>)

ScenarioExample ==
  RawMap(<<Entry("c", RawStr("3")), Entry("a", RawStr("1")), Entry("b", RawStr("2"))>>)

ScenarioInputs == {[c |-> PlainSpec(ScenarioTree), example |-> ScenarioExample, fails |-> FALSE]}

\* varied metadata, one field tree (or none), encodable and unencodable examples
MetaInputs ==
  {[c |-> ComponentSpec(p.Status, s, d, p.Footnotes, p.Categories, p.Examples, p.Version, cfg),
    example |-> r.example, fails |-> r.fails] :
     p \in Profiles, s \in Texts, d \in Descriptions,
     cfg \in {ConfigTree(Common, Advanced, Kind2DArray, Deprecated, Common),
              Field("", "object", KindMap, FALSE, FALSE, <<>>)},
     r \in {[example |-> ExampleFor(<<"b", "a">>, Kind2DArray), fails |-> FALSE],
            [example |-> ExampleFor(<<"b", "a">>, Kind2DArray), fails |-> TRUE],
            [example |-> RawMap(<<Entry("a", RawStr("1")), Entry("z", RawChan)>>), fails |-> FALSE]}}

Inputs == TreeInputs \cup ScenarioInputs \cup MetaInputs

NoConfig == Node("none", "", <<>>)
NoRet == [bytes |-> <<>>, err |-> "nil"]
NoLog == [done |-> FALSE, how |-> "", ret |-> NoRet, common |-> <<>>, advanced |-> <<>>]

Init ==
  /\ \E in \in Inputs :
       /\ c = in.c
       /\ fullConfigExample = in.example
       /\ fieldDocsFails = in.fails
  /\ pc = "idle"
  /\ nest = FALSE
  /\ ctx = ZeroCtx
  /\ advConfig = NoConfig
  /\ commonConfig = NoConfig
  /\ ret = NoRet
  /\ work = {}
  /\ log = [n \in BOOLEAN |-> NoLog]

\* ------------------------------------------------------------------------
\* AsMarkdown, step by step
\* ------------------------------------------------------------------------
inputs == <<c, fullConfigExample, fieldDocsFails>>

\* Enter with the status default written to the receiver instead of the context
EnterDefaultInPlace(n) ==
  /\ pc = "idle"
  /\ nest' = n
  /\ work' = {}
  /\ c' = [c EXCEPT !.Status = IF @ = "" THEN StatusStable ELSE @]
  /\ IF HasBlankLine(c.Summary)
     THEN /\ ret' = [bytes |-> <<>>, err |-> "ValidationError"]
          /\ pc' = "returned"
          /\ ctx' = ZeroCtx
     ELSE /\ ctx' = [ZeroCtx EXCEPT
                       !.Name = c.Name, !.Type = c.Type, !.Summary = c.Summary,
                       !.Description = c.Description, !.Examples = c.Examples,
                       !.Footnotes = c.Footnotes,
                       !.Status = c'.Status,
                       !.Version = c.Version,
                       !.Categories = IF Len(c.Categories) > 0 THEN JsonMarshal(c.Categories) ELSE <<>>]
          /\ pc' = "genAdvanced"
          /\ ret' = NoRet
  /\ UNCHANGED <<fullConfigExample, fieldDocsFails, advConfig, commonConfig, log>>

\* lines 193-215: the summary check and the context
Enter(n) ==
  /\ pc = "idle"
  /\ nest' = n
  /\ work' = {}
  /\ IF HasBlankLine(c.Summary)
     THEN /\ ret' = [bytes |-> <<>>, err |-> "ValidationError"]
          /\ pc' = "returned"
          /\ ctx' = ZeroCtx
     ELSE /\ ctx' = [ZeroCtx EXCEPT
                       !.Name = c.Name, !.Type = c.Type, !.Summary = c.Summary,
                       !.Description = c.Description, !.Examples = c.Examples,
                       !.Footnotes = c.Footnotes,
                       !.Status = IF c.Status = "" THEN StatusStable ELSE c.Status,
                       !.Version = c.Version,
                       !.Categories = IF Len(c.Categories) > 0 THEN JsonMarshal(c.Categories) ELSE <<>>]
          /\ pc' = "genAdvanced"
          /\ ret' = NoRet
  /\ UNCHANGED <<inputs, advConfig, commonConfig, log>>

\* lines 163-167
GenAdvanced ==
  /\ pc = "genAdvanced"
  /\ LET r == createOrderedConfig(c.Type, fullConfigExample, "advanced")
     IN IF r.err # "nil"
        THEN pc' = "panicked" /\ UNCHANGED <<advConfig, work>>
        ELSE pc' = "genCommon" /\ advConfig' = r.node /\ work' = work \cup {"advanced view"}
  /\ UNCHANGED <<inputs, nest, ctx, commonConfig, ret, log>>

\* lines 168-172
GenCommon ==
  /\ pc = "genCommon"
  /\ LET r == createOrderedConfig(c.Type, fullConfigExample, "common")
     IN IF r.err # "nil"
        THEN pc' = "panicked" /\ UNCHANGED <<commonConfig, work>>
        ELSE pc' = "marshal" /\ commonConfig' = r.node /\ work' = work \cup {"common view"}
  /\ UNCHANGED <<inputs, nest, ctx, advConfig, ret, log>>

\* lines 174-188 and the return into lines 218-220
NestAndMarshal ==
  /\ pc = "marshal"
  /\ LET adv == marshalYAML(NestWrap(c.Type, nest, advConfig))
         com == marshalYAML(NestWrap(c.Type, nest, commonConfig))
     IN IF adv.err # "nil" \/ com.err # "nil"
        THEN pc' = "panicked" /\ UNCHANGED <<ctx, work>>
        ELSE /\ ctx' = [ctx EXCEPT !.CommonConfig = com.bytes, !.AdvancedConfig = adv.bytes]
             /\ work' = work \cup {"serialize"}
             /\ pc' = "fields"
  /\ UNCHANGED <<inputs, nest, advConfig, commonConfig, ret, log>>

\* FixupAndFlatten with the leading newline stripped from the receiver's own strings
FixupAndFlattenInPlace ==
  /\ pc = "fields"
  /\ c' = [c EXCEPT !.Description = StripLeadingNewline(@), !.Footnotes = StripLeadingNewline(@)]
  /\ LET flattenedFields == FlattenChildrenForDocs(c.Config)
     IN ctx' = [ctx EXCEPT
                  !.Description = c'.Description,
                  !.Footnotes = c'.Footnotes,
                  !.Fields = [i \in DOMAIN flattenedFields |-> DocField(flattenedFields[i])]]
  /\ work' = work \cup {"flatten"}
  /\ pc' = "execute"
  /\ UNCHANGED <<fullConfigExample, fieldDocsFails, nest, advConfig, commonConfig, ret, log>>

\* lines 222-240
FixupAndFlatten ==
  /\ pc = "fields"
  /\ LET flattenedFields == FlattenChildrenForDocs(c.Config)
     IN ctx' = [ctx EXCEPT
                  !.Description = StripLeadingNewline(c.Description),
                  !.Footnotes = StripLeadingNewline(c.Footnotes),
                  !.Fields = [i \in DOMAIN flattenedFields |-> DocField(flattenedFields[i])]]
  /\ work' = work \cup {"flatten"}
  /\ pc' = "execute"
  /\ UNCHANGED <<inputs, nest, advConfig, commonConfig, ret, log>>

\* lines 242-245
ExecuteTemplate ==
  /\ pc = "execute"
  /\ LET r == Execute(ctx, fieldDocsFails)
     IN ret' = [bytes |-> r.buf, err |-> r.err]
  /\ work' = work \cup {"execute"}
  /\ pc' = "returned"
  /\ UNCHANGED <<inputs, nest, ctx, advConfig, commonConfig, log>>

\* what the caller observes of the call that just ended
Outcome == [done |-> TRUE, how |-> pc, ret |-> ret, common |-> ctx.CommonConfig, advanced |-> ctx.AdvancedConfig]

\* the call is over (returned, or unwound by a panic): its locals are gone
Resume ==
  /\ pc \in {"returned", "panicked"}
  /\ log' = IF log[nest].done THEN log ELSE [log EXCEPT ![nest] = Outcome]
  /\ pc' = "idle"
  /\ ctx' = ZeroCtx
  /\ advConfig' = NoConfig
  /\ commonConfig' = NoConfig
  /\ ret' = NoRet
  /\ work' = {}
  /\ UNCHANGED <<inputs, nest>>

Next ==
  \/ \E n \in BOOLEAN : Enter(n)
  \/ GenAdvanced
  \/ GenCommon
  \/ NestAndMarshal
  \/ FixupAndFlatten
  \/ ExecuteTemplate
  \/ Resume

Spec == Init /\ [][Next]_vars

\* ------------------------------------------------------------------------
\* Properties
\* ------------------------------------------------------------------------
\* the summary holds two consecutive line breaks
SummaryHasEmptyLine ==
  \E i \in DOMAIN c.Summary : i + 1 \in DOMAIN c.Summary /\ c.Summary[i] = "\n" /\ c.Summary[i + 1] = "\n"

CallEnded == pc \in {"returned", "panicked"}

\* C1: a call whose raw example cannot be encoded ends by returning a
\* non-nil error to the caller of AsMarkdown.
C1_ErrorsReturned ==
  (CallEnded /\ ~SummaryHasEmptyLine /\ ~Encodable(fullConfigExample))
    => (pc = "returned" /\ ret.err # "nil")

\* C2: every return of AsMarkdown is either (nil error, full document) or
\* (non-nil error, no bytes).
C2_NoPartialOutput ==
  pc = "returned" =>
    \/ ret.err = "nil" /\ ret.bytes = FullDocument(ctx)
    \/ ret.err # "nil" /\ ret.bytes = <<>>

\* C3: with a blank line in the summary, the call returns a validation error
\* and no bytes, and no view is built, nothing is serialized and the
\* template is not executed.
C3_BlankSummaryRejectedFirst ==
  SummaryHasEmptyLine =>
    /\ pc \in {"idle", "returned"}
    /\ work = {}
    /\ advConfig = NoConfig /\ commonConfig = NoConfig
    /\ ctx.CommonConfig = <<>> /\ ctx.AdvancedConfig = <<>>
    /\ pc = "returned" => ret = [bytes |-> <<>>, err |-> "ValidationError"]

C3_Witness ==
  /\ pc = "returned"
  /\ c.Summary = <<"s", "\n", "\n">>
  /\ ret.err = "ValidationError"

\* the key paths present in a node tree
RECURSIVE KeyPaths(_, _)
KeyPaths(node, prefix) ==
  CASE node.Kind = "Mapping" ->
         UNION {{prefix \o <<p.key>>} \cup KeyPaths(p.val, prefix \o <<p.key>>) :
                  p \in {PairsOf(node)[i] : i \in DOMAIN PairsOf(node)}}
    [] node.Kind = "Sequence" ->
         UNION {KeyPaths(node.Content[i], prefix) : i \in DOMAIN node.Content}
    [] OTHER -> {}

\* the paths of the fields a specification marks deprecated
RECURSIVE DeprecatedPaths(_, _)
DeprecatedPaths(specs, prefix) ==
  UNION {(IF specs[i].IsDeprecated THEN {prefix \o <<specs[i].Name>>} ELSE {})
           \cup DeprecatedPaths(specs[i].Children, prefix \o <<specs[i].Name>>) :
         i \in DOMAIN specs}

ViewsBuilt == pc = "marshal"

\* C4: no deprecated field is present in the common or the advanced view,
\* at any nesting level.
C4_DeprecatedAbsent ==
  ViewsBuilt =>
    /\ KeyPaths(advConfig, <<>>) \cap DeprecatedPaths(c.Config.Children, <<>>) = {}
    /\ KeyPaths(commonConfig, <<>>) \cap DeprecatedPaths(c.Config.Children, <<>>) = {}

IsScenario == c.Config = ScenarioTree /\ fullConfigExample = ScenarioExample

\* C5: the fields present in the common view are a subset of those present
\* in the advanced view; for a (common), b (advanced), c (deprecated) and
\* example {c: 3, a: 1, b: 2} the views are {a: 1} and {a: 1, b: 2}.
C5_CommonSubsetOfAdvanced ==
  ViewsBuilt =>
    /\ KeyPaths(commonConfig, <<>>) \subseteq KeyPaths(advConfig, <<>>)
    /\ IsScenario =>
         /\ commonConfig = MappingNode(<<[key |-> "a", val |-> ScalarNode("1")]>>)
         /\ advConfig = MappingNode(<<[key |-> "a", val |-> ScalarNode("1")],
                                      [key |-> "b", val |-> ScalarNode("2")]>>)

C5_Witness ==
  /\ ViewsBuilt
  /\ <<"b", "x">> \in KeyPaths(advConfig, <<>>)
  /\ <<"b", "x">> \notin KeyPaths(commonConfig, <<>>)
  /\ <<"b", "y">> \in KeyPaths(commonConfig, <<>>)

\* one mapping level of a view against the same level of the encoded example
OrderedLevel(specs, inPairs, outPairs, typeKept) ==
  LET names == {specs[i].Name : i \in DOMAIN specs}
      pos(k) == CHOOSE i \in DOMAIN specs : specs[i].Name = k
      outKeys == KeysOf(outPairs)
      inKeys == KeysOf(inPairs)
  IN /\ \A i, j \in DOMAIN outKeys :
          (i < j /\ outKeys[i] \in names /\ outKeys[j] \in names) => pos(outKeys[i]) < pos(outKeys[j])
     /\ \A i, j \in DOMAIN outKeys :
          (i < j /\ outKeys[i] \notin names) => outKeys[j] \notin names
     /\ SelectSeq(outKeys, LAMBDA k : k \notin names)
          = SelectSeq(inKeys, LAMBDA k : k \notin names /\ (typeKept \/ k # "type"))

RECURSIVE OrderedView(_, _, _, _, _)
OrderedView(specs, in, out, depth, typeKept) ==
  IF depth > 0
  THEN in.Kind = "Sequence" =>
         /\ out.Kind = "Sequence"
         /\ Len(out.Content) = Len(in.Content)
         /\ \A i \in DOMAIN in.Content :
              OrderedView(specs, in.Content[i], out.Content[i], depth - 1, typeKept)
  ELSE in.Kind = "Mapping" =>
         /\ out.Kind = "Mapping"
         /\ OrderedLevel(specs, PairsOf(in), PairsOf(out), typeKept)
         /\ \A i \in DOMAIN specs :
              (/\ specs[i].Kind # KindScalar
               /\ HasKey(PairsOf(in), specs[i].Name)
               /\ HasKey(PairsOf(out), specs[i].Name))
                => OrderedView(specs[i].Children, ValueAt(PairsOf(in), specs[i].Name),
                               ValueAt(PairsOf(out), specs[i].Name),
                               KindDepth(specs[i].Kind), typeKept)

\* C6 as stated: specified keys follow declared order, and every key of the
\* raw example that the specification lacks is kept, after the specified ones,
\* in original order.
C6_AllUnspecifiedKept ==
  ViewsBuilt =>
    /\ OrderedView(c.Config.Children, EncodeNode(fullConfigExample), advConfig, 0, TRUE)
    /\ OrderedView(c.Config.Children, EncodeNode(fullConfigExample), commonConfig, 0, TRUE)

\* C6 amended: specified keys follow declared order, and every key of the
\* raw example that the specification lacks, other than the type key (which
\* is removed), is kept, after the specified ones, in original order.
C6_OrderPreserved ==
  ViewsBuilt =>
    /\ OrderedView(c.Config.Children, EncodeNode(fullConfigExample), advConfig, 0, FALSE)
    /\ OrderedView(c.Config.Children, EncodeNode(fullConfigExample), commonConfig, 0, FALSE)

C6_Witness ==
  /\ ViewsBuilt
  /\ KeysOf(fullConfigExample.kv) = <<"b", "a">>
  /\ KeysOf(PairsOf(advConfig)) = <<"a", "b">>
  /\ advConfig.Content[4].Kind = "Mapping"
  /\ KeysOf(PairsOf(advConfig.Content[4])) = <<"x", "y", "q">>

\* a text whose only top-level key is t
IsNestedUnder(t, lines) ==
  /\ Len(lines) >= 1
  /\ lines[1].ind = 0 /\ lines[1].dash = 0 /\ lines[1].key = t
  /\ \A i \in 2..Len(lines) : lines[i].ind >= 1

\* the value under the single top-level key of a nested text
Unwrap(lines) ==
  IF lines[1].val # ""
  THEN <<[lines[1] EXCEPT !.key = ""]>>
  ELSE [i \in 1..(Len(lines) - 1) |-> [lines[i + 1] EXCEPT !.ind = @ - 1]]

BothNestingsRendered ==
  /\ log[TRUE].done /\ log[FALSE].done
  /\ log[TRUE].common # <<>> /\ log[FALSE].common # <<>>

\* C7: the nest=true texts have the type identifier as their only top-level
\* key, and the value under it is the nest=false text, for both views.
C7_NestUnwraps ==
  BothNestingsRendered =>
    /\ IsNestedUnder(c.Type, log[TRUE].common)
    /\ IsNestedUnder(c.Type, log[TRUE].advanced)
    /\ Unwrap(log[TRUE].common) = log[FALSE].common
    /\ Unwrap(log[TRUE].advanced) = log[FALSE].advanced

C7_Witness ==
  /\ BothNestingsRendered
  /\ Len(log[FALSE].advanced) > 2
  /\ log[FALSE].advanced # log[FALSE].common

\* C8: the field list given to the template mirrors the flattened children:
\* same length, order and names, kind scalar, and the type label by kind.
C8_FieldLabels ==
  "flatten" \in work =>
    LET flat == FlattenChildrenForDocs(c.Config)
    IN /\ Len(ctx.Fields) = Len(flat)
       /\ \A i \in DOMAIN flat :
            /\ ctx.Fields[i].FullName = flat[i].FullName
            /\ ctx.Fields[i].Spec.Name = flat[i].Spec.Name
            /\ ctx.Fields[i].Spec.Kind = KindScalar
            /\ flat[i].Spec.Kind = KindMap => ctx.Fields[i].Spec.Type = "object"
            /\ flat[i].Spec.Kind = KindArray => ctx.Fields[i].Spec.Type = "array"
            /\ flat[i].Spec.Kind = Kind2DArray => ctx.Fields[i].Spec.Type = "two-dimensional array"
            /\ flat[i].Spec.Kind = KindScalar => ctx.Fields[i].Spec.Type = flat[i].Spec.Type

C8_Witness ==
  /\ "flatten" \in work
  /\ Len(ctx.Fields) = 4
  /\ ctx.Fields[2].Spec.Type = "two-dimensional array"
  /\ ctx.Fields[3].Spec.Type = "int"
  /\ ctx.Fields[3].FullName = "b[][].x"

\* C9: a call with the same receiver, example and nest flag as an earlier
\* call ends the same way, with the same bytes, error and config texts.
C9_SameInputsSameOutput ==
  (CallEnded /\ log[nest].done) => Outcome = log[nest]

C9_Witness ==
  /\ pc = "returned"
  /\ log[nest].done /\ log[~nest].done
  /\ ret.err = "nil"
  /\ c.Description = <<"\n", "\n", "d">>

\* C10: no step of a render call changes the receiver or the raw example.
C10_InputsUnchanged == [][c' = c /\ fullConfigExample' = fullConfigExample]_vars

C10_Witness ==
  /\ pc = "returned"
  /\ ret.err = "nil"
  /\ c.Status = "" /\ ctx.Status = StatusStable
  /\ c.Description = <<"\n", "d">> /\ ctx.Description = <<"d">>
  /\ Len(c.Config.Children) = 2 /\ Len(ctx.Fields) = 4
  /\ c.Config.Children[2].Kind = Kind2DArray /\ ctx.Fields[2].Spec.Kind = KindScalar

====
